---- MODULE Spec2Model ----
(***************************************************************************)
(* Model of the gps_history utility scripts:                               *)
(*   tool/generate_google_json.py    synthetic location history generator  *)
(*   tool/gen_github_changes.py      changelog slicer                      *)
(*   tool/google_json_unique_keys.py JSON key lister                       *)
(* Each script is one sequential process; it has its own specification     *)
(* (SpecGen, SpecRules, SpecSlice, SpecKeys) over its own variables.       *)
(***************************************************************************)
EXTENDS Integers, Sequences, FiniteSets

VARIABLES
    \* ---- generate_google_json.py
    gpc,                    \* position in the script
    nr_points,              \* configuration: number of records
    time_between_points_s,  \* configuration: seconds between records
    start_time,             \* configuration: timestamp of record 0 (ms)
    stream,                 \* state of the output file object
    opens,                  \* number of open() calls made
    closes,                 \* number of close() calls made
    written,                \* the strings passed to file.write, in order
    points_written,         \* loop counter
    \* ---- the derivation rules applied to one index (SpecRules)
    rpc, rule_index, rule_time, rule_delay,
    \* ---- gen_github_changes.py
    spc, argc, src, version, line_nr, do_output, target_open, target,
    \* ---- google_json_unique_keys.py
    kpc, klines, kline_nr, unique_names, names_sorted, printed

genVars   == <<gpc, nr_points, time_between_points_s, start_time, stream,
               opens, closes, written, points_written>>
ruleVars  == <<rpc, rule_index, rule_time, rule_delay>>
sliceVars == <<spc, argc, src, version, line_nr, do_output, target_open, target>>
keyVars   == <<kpc, klines, kline_nr, unique_names, names_sorted, printed>>
vars      == <<genVars, ruleVars, sliceVars, keyVars>>

(***************************************************************************)
(* Bounds of the model.                                                    *)
(***************************************************************************)
MaxPoints == 12
MaxIndex == 120
MaxLines == 3
MaxKeyLines == 3

PointCounts == -1 .. MaxPoints
Intervals   == {1, 7, 60}
StartTimes  == {0, 1000}

(***************************************************************************)
(* Text.  A string is a sequence of tokens [t, s, n]:                      *)
(*   t = "p"     punctuation s, one of { } [ ] ,                           *)
(*   t = "key"   the member name "s" followed by its colon                 *)
(*   t = "str"   the string literal "s"                                    *)
(*   t = "qnum"  the integer n between double quotes                       *)
(*   t = "num"   the integer n                                             *)
(*   t = "trig"  the integer round(f(n)) of the trigonometric rule s       *)
(*   t = "ph"    (patterns only) the replacement field {s}                 *)
(*   t = "qph"   (patterns only) the replacement field "{s}" in quotes     *)
(***************************************************************************)
P(c)   == [t |-> "p",   s |-> c, n |-> 0]
Key(k) == [t |-> "key", s |-> k, n |-> 0]
Str(v) == [t |-> "str", s |-> v, n |-> 0]
Num(v) == [t |-> "num", s |-> "", n |-> v]
QNum(v) == [t |-> "qnum", s |-> "", n |-> v]
Trig(f, i) == [t |-> "trig", s |-> f, n |-> i]
Ph(f)  == [t |-> "ph",  s |-> f, n |-> 0]
QPh(f) == [t |-> "qph", s |-> f, n |-> 0]

(***************************************************************************)
(* Derivation rules.                                                       *)
(***************************************************************************)
accuracy_rule(index) == 20 * (index % 30)

\* 300 * sin(index): a real; only its identity (rule, index) is kept.
altitude_rule(index) == Trig("altitude", index)

latitude_rule(index) == Trig("latitude", index)

longitude_rule(index) == Trig("longitude", index)

time_activity_rule_div2(index, interval) == interval \div (1 + (index % 2))

time_activity_rule(index, interval) == interval \div (1 + (index % 3))

extra_delay(index, interval) ==
    IF index % 50 # 0 THEN 0 ELSE interval * 100 * (index % 10)

time_rule(index, interval) ==
    index * 1000 * interval + extra_delay(index, interval)

vertical_accuracy_rule(index) == accuracy_rule(index) \div 10

\* round() of an int is that int
round(x) == x

(***************************************************************************)
(* Patterns.  A doubled brace of the pattern source is the literal brace.  *)
(***************************************************************************)
pattern_accuracy_only ==
    << Key("timestampMs"), QPh("time"), P(","),
       Key("latitudeE7"), Ph("latitude"), P(","),
       Key("longitudeE7"), Ph("longitude"), P(","),
       Key("accuracy"), Ph("accuracy") >>

pattern_activity ==
    << Key("timestampMs"), QPh("time"), P(","),
       Key("latitudeE7"), Ph("latitude"), P(","),
       Key("longitudeE7"), Ph("longitude"), P(","),
       Key("accuracy"), Ph("accuracy"), P(","),
       Key("activity"), P("["), P("{"),
           Key("timestampMs"), QPh("time_activity"), P(","),
           Key("activity"), P("["), P("{"),
               Key("type"), Str("UNKNOWN"), P(","),
               Key("confidence"), Num(56),
           P("}"), P(","), P("{"),
               Key("type"), Str("STILL"), P(","),
               Key("confidence"), Num(38),
           P("}"), P(","), P("{"),
               Key("type"), Str("IN_VEHICLE"), P(","),
               Key("confidence"), Num(5),
           P("}"), P(","), P("{"),
               Key("type"), Str("TILTING"), P(","),
               Key("confidence"), Num(1),
           P("}"), P("]"),
       P("}"), P("]") >>

pattern_altitude ==
    << Key("timestampMs"), QPh("time"), P(","),
       Key("latitudeE7"), Ph("latitude"), P(","),
       Key("longitudeE7"), Ph("longitude"), P(","),
       Key("accuracy"), Ph("accuracy"), P(","),
       Key("altitude"), Ph("altitude"), P(","),
       Key("verticalAccuracy"), Ph("vertical_accuracy") >>

all_patterns_activity_first ==
    << pattern_activity, pattern_accuracy_only, pattern_altitude,
       pattern_accuracy_only, pattern_altitude, pattern_accuracy_only >>

all_patterns ==
    << pattern_accuracy_only, pattern_accuracy_only, pattern_altitude,
       pattern_accuracy_only, pattern_altitude, pattern_activity >>

nr_patterns == Len(all_patterns)

\* str.format: every replacement field is replaced by its argument
format(pattern, args) ==
    [k \in 1 .. Len(pattern) |->
        IF pattern[k].t = "ph" THEN args[pattern[k].s]
        ELSE IF pattern[k].t = "qph" THEN QNum(args[pattern[k].s].n)
        ELSE pattern[k]]

lead_in_unclosed == << P("{"), Key("locations"), P("[") >>

lead_in == << P("{"), Key("locations"), P("["), P("{") >>

separator == << P("}"), P(","), P("{") >>

lead_out == << P("}"), P("]"), P("}") >>

\* the record's own timestamp
PointTime(index, interval, start) == round(start + time_rule(index, interval))

PointTimeActivity(index, interval, start) ==
    round(PointTime(index, interval, start) + time_activity_rule(index, interval))

\* the string s of one loop iteration
PointString(index, interval, start) ==
    format(all_patterns[(index % nr_patterns) + 1],
           [ time              |-> Num(PointTime(index, interval, start)),
             time_activity     |-> Num(PointTimeActivity(index, interval, start)),
             latitude          |-> round(latitude_rule(index)),
             longitude         |-> round(longitude_rule(index)),
             accuracy          |-> Num(round(accuracy_rule(index))),
             altitude          |-> round(altitude_rule(index)),
             vertical_accuracy |-> Num(round(vertical_accuracy_rule(index))) ])

(***************************************************************************)
(* The generator script.                                                   *)
(***************************************************************************)
GenInit ==
    /\ gpc = "open"
    /\ nr_points \in PointCounts
    /\ time_between_points_s \in Intervals
    /\ start_time \in StartTimes
    /\ stream = "unopened"
    /\ opens = 0
    /\ closes = 0
    /\ written = << >>
    /\ points_written = 0

GenIdle ==
    /\ gpc = "idle"
    /\ nr_points = 0
    /\ time_between_points_s = 0
    /\ start_time = 0
    /\ stream = "unopened"
    /\ opens = 0
    /\ closes = 0
    /\ written = << >>
    /\ points_written = 0

\* file.write(s)
Write(s) ==
    /\ stream = "open"
    /\ written' = Append(written, s)

OpenFile ==
    /\ gpc = "open"
    /\ stream' = "open"
    /\ opens' = opens + 1
    /\ gpc' = "lead_in"
    /\ UNCHANGED <<nr_points, time_between_points_s, start_time, closes,
                   written, points_written>>

WriteLeadIn ==
    /\ gpc = "lead_in"
    /\ Write(lead_in)
    /\ points_written' = 0
    /\ gpc' = "loop"
    /\ UNCHANGED <<nr_points, time_between_points_s, start_time, stream,
                   opens, closes>>

WritePoint ==
    /\ gpc = "loop"
    /\ points_written < nr_points
    /\ Write(PointString(points_written, time_between_points_s, start_time))
    /\ points_written' = points_written + 1
    /\ gpc' = "separator"
    /\ UNCHANGED <<nr_points, time_between_points_s, start_time, stream,
                   opens, closes>>

WriteSeparator ==
    /\ gpc = "separator"
    /\ IF points_written <= nr_points
          THEN Write(separator)
          ELSE UNCHANGED written
    /\ gpc' = "loop"
    /\ UNCHANGED <<nr_points, time_between_points_s, start_time, stream,
                   opens, closes, points_written>>

WriteLeadOut ==
    /\ gpc = "loop"
    /\ ~(points_written < nr_points)
    /\ Write(lead_out)
    /\ gpc' = "done"
    /\ UNCHANGED <<nr_points, time_between_points_s, start_time, stream,
                   opens, closes, points_written>>


(***************************************************************************)
(* The time rule applied to one index, as the loop applies it.             *)
(***************************************************************************)
RulesIdle ==
    /\ rpc = "idle"
    /\ rule_index = 0
    /\ rule_time = 0
    /\ rule_delay = 0

RulesInit ==
    /\ rpc = "eval"
    /\ rule_index \in 0 .. MaxIndex
    /\ rule_time = 0
    /\ rule_delay = 0

EvalTimeRule ==
    /\ rpc = "eval"
    /\ rule_delay' = extra_delay(rule_index, time_between_points_s)
    /\ rule_time' = PointTime(rule_index, time_between_points_s, start_time)
    /\ rpc' = "done"
    /\ UNCHANGED rule_index

(***************************************************************************)
(* Strings of characters (changelog lines, JSON lines, version labels).    *)
(***************************************************************************)
startswith(line, prefix) ==
    /\ Len(line) >= Len(prefix)
    /\ SubSeq(line, 1, Len(prefix)) = prefix

header_prefix == << "#", " " >>

(***************************************************************************)
(* The changelog slicer, run_conversion.                                   *)
(***************************************************************************)
SliceLines ==
    { << "#", " ", "1" >>,          \* header of version 1
      << "#", " ", "1", "1" >>,     \* header of version 11
      << "#", " ", "2" >>,          \* header of version 2
      << "#", "#", " ", "1" >>,     \* sub-header
      << "a" >> }                   \* body line

Versions == { << "1" >>, << "1", "1" >>, << "2" >> }

SeqsUpTo(S, n) == UNION { [1 .. k -> S] : k \in 0 .. n }

SliceIdle ==
    /\ spc = "idle"
    /\ argc = 0
    /\ src = << >>
    /\ version = << >>
    /\ line_nr = 0
    /\ do_output = "unbound"
    /\ target_open = FALSE
    /\ target = << >>

SliceInit ==
    /\ spc = "start"
    /\ argc \in {3, 4}
    /\ src \in SeqsUpTo(SliceLines, MaxLines)
    /\ version \in Versions
    /\ line_nr = 0
    /\ do_output = "unbound"
    /\ target_open = FALSE
    /\ target = << >>

\* the value of do_output after the if/elif of one iteration
LineFlag_else(line, ver, cur) ==
    IF startswith(line, header_prefix \o ver) THEN "true" ELSE "false"

LineFlag(line, ver, cur) ==
    IF startswith(line, header_prefix \o ver) THEN "true"
    ELSE IF startswith(line, header_prefix) THEN "false"
    ELSE cur

Usage ==
    /\ spc = "start"
    /\ argc < 4
    /\ spc' = "usage"
    /\ UNCHANGED <<argc, src, version, line_nr, do_output, target_open, target>>

OpenFiles ==
    /\ spc = "start"
    /\ ~(argc < 4)
    /\ target_open' = TRUE
    /\ target' = << >>
    /\ spc' = "loop"
    /\ UNCHANGED <<argc, src, version, line_nr, do_output>>

ProcessLine ==
    /\ spc = "loop"
    /\ line_nr < Len(src)
    /\ LET line == src[line_nr + 1]
           flag == LineFlag(line, version, do_output)
       IN  IF flag = "unbound"
              THEN \* UnboundLocalError at "if do_output"
                   /\ spc' = "error"
                   /\ UNCHANGED <<line_nr, do_output, target>>
              ELSE /\ do_output' = flag
                   /\ target' = IF flag = "true" THEN Append(target, line)
                                                 ELSE target
                   /\ line_nr' = line_nr + 1
                   /\ UNCHANGED spc
    /\ UNCHANGED <<argc, src, version, target_open>>

EndOfLines ==
    /\ spc = "loop"
    /\ line_nr = Len(src)
    /\ spc' = "done"
    /\ UNCHANGED <<argc, src, version, line_nr, do_output, target_open, target>>


(***************************************************************************)
(* The JSON key lister.                                                    *)
(***************************************************************************)
\* code points of the characters used
Code(c) ==
    CASE c = " "  -> 32
      [] c = "\"" -> 34
      [] c = "1"  -> 49
      [] c = ":"  -> 58
      [] c = "B"  -> 66
      [] c = "_"  -> 95
      [] c = "a"  -> 97
      [] c = "b"  -> 98
      [] c = "{"  -> 123

\* the class \w
IsWordChar(c) ==
    \/ Code(c) \in 48 .. 57
    \/ Code(c) \in 65 .. 90
    \/ Code(c) = 95
    \/ Code(c) \in 97 .. 122

RECURSIVE FindFrom(_, _, _, _)
FindFrom(line, i, cur, acc) ==
    IF i > Len(line)
       THEN IF cur = << >> THEN acc ELSE Append(acc, cur)
    ELSE IF IsWordChar(line[i])
       THEN FindFrom(line, i + 1, Append(cur, line[i]), acc)
    ELSE FindFrom(line, i + 1, << >>,
                  IF cur = << >> THEN acc ELSE Append(acc, cur))

\* r.findall(line): the maximal runs of word characters, left to right
findall(line) == FindFrom(line, 1, << >>, << >>)

LastMatch(m) == m[Len(m)]

\* m[0]
FirstMatch(m) == m[1]

\* comparison of str: lexicographic by code point
RECURSIVE StrLess(_, _)
StrLess(a, b) ==
    IF b = << >> THEN FALSE
    ELSE IF a = << >> THEN TRUE
    ELSE IF Code(Head(a)) # Code(Head(b)) THEN Code(Head(a)) < Code(Head(b))
    ELSE StrLess(Tail(a), Tail(b))

RECURSIVE sorted(_)
sorted(S) ==
    IF S = {} THEN << >>
    ELSE LET least == CHOOSE x \in S : \A y \in S \ {x} : StrLess(x, y)
         IN  << least >> \o sorted(S \ {least})

KeyLines ==
    { << "{" >>,
      << " ", "\"", "a", "\"", ":", "1" >>,
      << "\"", "a", "b", "\"" >>,
      << "b", " ", "a" >>,
      << "B", "_", "1", ":" >>,
      << "\"", "b", "\"", ":", " ", "{" >> }

KeysIdle ==
    /\ kpc = "idle"
    /\ klines = << >>
    /\ kline_nr = 0
    /\ unique_names = {}
    /\ names_sorted = << >>
    /\ printed = << >>

KeysInit ==
    /\ kpc = "read"
    /\ klines \in SeqsUpTo(KeyLines, MaxKeyLines)
    /\ kline_nr = 0
    /\ unique_names = {}
    /\ names_sorted = << >>
    /\ printed = << >>

ReadLine ==
    /\ kpc = "read"
    /\ kline_nr < Len(klines)
    /\ LET m == findall(klines[kline_nr + 1])
       IN  unique_names' = IF Len(m) > 0 THEN unique_names \cup {FirstMatch(m)}
                                         ELSE unique_names
    /\ kline_nr' = kline_nr + 1
    /\ UNCHANGED <<kpc, klines, names_sorted, printed>>

SortNames ==
    /\ kpc = "read"
    /\ kline_nr = Len(klines)
    /\ names_sorted' = sorted(unique_names)
    /\ kpc' = "print"
    /\ UNCHANGED <<klines, kline_nr, unique_names, printed>>

\* print('{} : {}'.format(name, len(name)))
PrintName ==
    /\ kpc = "print"
    /\ names_sorted # << >>
    /\ LET name == Head(names_sorted)
       IN  printed' = Append(printed, [name |-> name, sep |-> " : ",
                                       length |-> Len(name)])
    /\ names_sorted' = Tail(names_sorted)
    /\ UNCHANGED <<kpc, klines, kline_nr, unique_names>>

EndOfNames ==
    /\ kpc = "print"
    /\ names_sorted = << >>
    /\ kpc' = "done"
    /\ UNCHANGED <<klines, kline_nr, unique_names, names_sorted, printed>>


(***************************************************************************)
(* Specifications, one per script.                                         *)
(***************************************************************************)
InitGen == GenInit /\ RulesIdle /\ SliceIdle /\ KeysIdle
NextGen ==
    \/ OpenFile /\ UNCHANGED <<ruleVars, sliceVars, keyVars>>
    \/ WriteLeadIn /\ UNCHANGED <<ruleVars, sliceVars, keyVars>>
    \/ WritePoint /\ UNCHANGED <<ruleVars, sliceVars, keyVars>>
    \/ WriteSeparator /\ UNCHANGED <<ruleVars, sliceVars, keyVars>>
    \/ WriteLeadOut /\ UNCHANGED <<ruleVars, sliceVars, keyVars>>
SpecGen == InitGen /\ [][NextGen]_vars

InitRules ==
    /\ RulesInit
    /\ gpc = "idle"
    /\ nr_points = 0
    /\ time_between_points_s \in Intervals
    /\ start_time \in StartTimes
    /\ stream = "unopened"
    /\ opens = 0
    /\ closes = 0
    /\ written = << >>
    /\ points_written = 0
    /\ SliceIdle /\ KeysIdle
NextRules == EvalTimeRule /\ UNCHANGED <<genVars, sliceVars, keyVars>>
SpecRules == InitRules /\ [][NextRules]_vars

InitSlice == SliceInit /\ GenIdle /\ RulesIdle /\ KeysIdle
NextSlice ==
    \/ Usage /\ UNCHANGED <<genVars, ruleVars, keyVars>>
    \/ OpenFiles /\ UNCHANGED <<genVars, ruleVars, keyVars>>
    \/ ProcessLine /\ UNCHANGED <<genVars, ruleVars, keyVars>>
    \/ EndOfLines /\ UNCHANGED <<genVars, ruleVars, keyVars>>
SpecSlice == InitSlice /\ [][NextSlice]_vars

InitKeys == KeysInit /\ GenIdle /\ RulesIdle /\ SliceIdle
NextKeys ==
    \/ ReadLine /\ UNCHANGED <<genVars, ruleVars, sliceVars>>
    \/ SortNames /\ UNCHANGED <<genVars, ruleVars, sliceVars>>
    \/ PrintName /\ UNCHANGED <<genVars, ruleVars, sliceVars>>
    \/ EndOfNames /\ UNCHANGED <<genVars, ruleVars, sliceVars>>
SpecKeys == InitKeys /\ [][NextKeys]_vars

(***************************************************************************)
(* Reading the written text back.                                          *)
(***************************************************************************)
RECURSIVE Flatten(_)
Flatten(ss) == IF ss = << >> THEN << >> ELSE Head(ss) \o Flatten(Tail(ss))

\* the text of the output file
Content == Flatten(written)

Closer(c) == IF c = "{" THEN "}" ELSE "]"

IsBracket(tok) == tok.t = "p" /\ tok.s \in {"{", "}", "[", "]"}

\* the brackets of a text, in order
Brackets(text) == SelectSeq(text, IsBracket)

\* every bracket of bs[i..] closes the innermost open one, and none stays open
RECURSIVE Nested(_, _, _)
Nested(bs, i, stack) ==
    IF i > Len(bs) THEN stack = << >>
    ELSE IF bs[i].s \in {"{", "["}
       THEN Nested(bs, i + 1, << Closer(bs[i].s) >> \o stack)
    ELSE /\ stack # << >>
         /\ Head(stack) = bs[i].s
         /\ Nested(bs, i + 1, Tail(stack))

Balanced(text) == Nested(Brackets(text), 1, << >>)

\* number of objects opened directly inside the outermost array
RECURSIVE CountElements(_, _, _)
CountElements(bs, i, depth) ==
    IF i > Len(bs) THEN 0
    ELSE IF bs[i].s \in {"{", "["}
       THEN (IF bs[i].s = "{" /\ depth = 2 THEN 1 ELSE 0)
            + CountElements(bs, i + 1, depth + 1)
    ELSE CountElements(bs, i + 1, depth - 1)

Elements(text) == CountElements(Brackets(text), 1, 0)

HasEmptyObject(text) ==
    \E k \in 1 .. Len(text) - 1 : text[k] = P("{") /\ text[k + 1] = P("}")

HasKey(text, k) == \E j \in 1 .. Len(text) : text[j] = Key(k)

\* the numbers that follow the member name k, left to right
RECURSIVE ValuesFrom(_, _, _)
ValuesFrom(text, k, j) ==
    IF j >= Len(text) THEN << >>
    ELSE IF text[j] = Key(k) /\ text[j + 1].t \in {"num", "qnum"}
       THEN << text[j + 1].n >> \o ValuesFrom(text, k, j + 1)
    ELSE ValuesFrom(text, k, j + 1)

ValuesOf(text, k) == ValuesFrom(text, k, 1)

Shape(text) ==
    IF HasKey(text, "activity") THEN "activity"
    ELSE IF HasKey(text, "altitude") /\ HasKey(text, "verticalAccuracy")
       THEN "altitude"
    ELSE IF /\ HasKey(text, "timestampMs") /\ HasKey(text, "latitudeE7")
            /\ HasKey(text, "longitudeE7") /\ HasKey(text, "accuracy")
       THEN "plain"
    ELSE "none"

Rotation == << "plain", "plain", "altitude", "plain", "altitude", "activity" >>

\* the string written for index i: lead-in first, then record and separator
\* in turn
RecordAt(i) == written[2 * i + 2]

RecordsWritten == 0 .. points_written - 1

(***************************************************************************)
(* C1: for record_count N >= 1 the writes are lead-in, the records 0..N-1  *)
(* with the separator after each record except the last, lead-out; the     *)
(* locations array holds exactly N elements, none empty.                   *)
(* The code writes the separator after the last record too.                *)
(***************************************************************************)
RECURSIVE SeparatedRecords(_, _)
SeparatedRecords(i, n) ==
    LET s == PointString(i, time_between_points_s, start_time)
    IN  IF i = n - 1 THEN << s >>
        ELSE << s, separator >> \o SeparatedRecords(i + 1, n)

C1_SeparatorBetweenRecordsOnly ==
    (gpc = "done" /\ nr_points >= 1) =>
        /\ written = << lead_in >> \o SeparatedRecords(0, nr_points) \o << lead_out >>
        /\ Elements(Content) = nr_points
        /\ ~HasEmptyObject(Content)

(***************************************************************************)
(* C2: with record_count <= 0 nothing is ever written to the output.       *)
(* The code does not look at nr_points before it writes the lead-in.       *)
(***************************************************************************)
C2_InvalidCountWritesNothing ==
    (gpc # "idle" /\ nr_points <= 0) => (written = << >> /\ stream = "unopened")

C4_FiftiethRecordJumps ==
    (rpc = "done" /\ time_between_points_s > 0) =>
        /\ rule_time = start_time + rule_index * 1000 * time_between_points_s
                       + rule_delay
        /\ (rule_index % 50 # 0 => rule_delay = 0)
        /\ (rule_index % 50 = 0 /\ rule_index % 500 # 0 => rule_delay > 0)

(***************************************************************************)
(* C5: the record written for index i has the shape Rotation[i mod 6]; it  *)
(* is an activity record exactly when i mod 6 = 5, and then its nested     *)
(* list has the four entries with confidences 56, 38, 5, 1.                *)
(***************************************************************************)
C5_ShapeRotation ==
    gpc \in {"separator", "loop", "done"} =>
        \A i \in RecordsWritten :
            /\ Shape(RecordAt(i)) = Rotation[(i % 6) + 1]
            /\ (Shape(RecordAt(i)) = "activity" <=> i % 6 = 5)
            /\ HasKey(RecordAt(i), "confidence") <=> i % 6 = 5
            /\ i % 6 = 5 =>
                  /\ ValuesOf(RecordAt(i), "confidence") = << 56, 38, 5, 1 >>
                  /\ Cardinality({j \in 1 .. Len(RecordAt(i)) :
                                     RecordAt(i)[j] = Key("type")}) = 4

C5_Witness ==
    /\ gpc = "done"
    /\ points_written >= 12
    /\ Shape(RecordAt(5)) = "activity"
    /\ Shape(RecordAt(11)) = "activity"
    /\ Shape(RecordAt(6)) = "plain"
    /\ Shape(RecordAt(4)) = "altitude"
    /\ ValuesOf(RecordAt(5), "confidence") = << 56, 38, 5, 1 >>

(***************************************************************************)
(* C7: the stream is opened exactly once before the first write and closed *)
(* exactly once after the last; on completion it is closed.                *)
(* The script never closes the file object.                                *)
(***************************************************************************)
C7_OpenedOnceClosedOnce ==
    /\ (written # << >> => opens = 1)
    /\ (gpc = "done" => (opens = 1 /\ closes = 1 /\ stream = "closed"))

(***************************************************************************)
(* C10: in every activity record the nested timestamp is the record's own  *)
(* timestamp plus interval div 3: activity records have i mod 6 = 5, hence *)
(* i mod 3 = 2, so the divisor 1 + (i mod 3) is never 1 or 2.              *)
(***************************************************************************)
C10_ActivityOffset ==
    gpc \in {"separator", "loop", "done"} =>
        \A i \in RecordsWritten :
            Shape(RecordAt(i)) = "activity" =>
                LET ts == ValuesOf(RecordAt(i), "timestampMs")
                IN  /\ Len(ts) = 2
                    /\ ts[1] = PointTime(i, time_between_points_s, start_time)
                    /\ ts[2] - ts[1] = time_between_points_s \div 3
                    /\ i % 3 = 2
                    /\ 1 + (i % 3) \notin {1, 2}
                    /\ time_between_points_s = 60 => ts[2] - ts[1] \notin {60, 30}

C10_Witness ==
    /\ points_written >= 6
    /\ time_between_points_s = 60
    /\ Shape(RecordAt(5)) = "activity"
    /\ ValuesOf(RecordAt(5), "timestampMs")[2]
         = ValuesOf(RecordAt(5), "timestampMs")[1] + 20

(***************************************************************************)
(* C6: on completion the target holds exactly the section of the version:  *)
(* the first line that begins with "# " + version and the lines after it,  *)
(* up to but not including the next line that begins with "# ".            *)
(* The code resumes the output at every later header that begins with      *)
(* "# " + version, such as the header of 1.0.1 for version 1.0.            *)
(***************************************************************************)
Least(S) == CHOOSE k \in S : \A j \in S : k <= j

Section(s, ver) ==
    LET heads == {k \in 1 .. Len(s) : startswith(s[k], header_prefix \o ver)}
    IN  IF heads = {} THEN << >>
        ELSE LET h == Least(heads)
                 later == {k \in h + 1 .. Len(s) : startswith(s[k], header_prefix)}
                 e == IF later = {} THEN Len(s) + 1 ELSE Least(later)
             IN  SubSeq(s, h, e - 1)

\* no header line occurs twice in the changelog
DistinctHeaders(s) ==
    \A j, k \in 1 .. Len(s) :
        (j # k /\ startswith(s[j], header_prefix)) => s[j] # s[k]

C6_ExactlyTheSection ==
    (spc = "done" /\ DistinctHeaders(src)) => target = Section(src, version)

(***************************************************************************)
(* C9: do_output has no value until a line beginning with "# " is seen.    *)
(* With at least three arguments and a first line that does not begin with *)
(* "# ", run_conversion fails on that first line, the target already open  *)
(* and nothing written; with an empty source or a first line that begins   *)
(* with "# " it never fails.                                               *)
(***************************************************************************)
C9_UnboundFlag ==
    /\ spc = "error" =>
          /\ argc >= 4
          /\ Len(src) > 0
          /\ ~startswith(src[1], header_prefix)
          /\ line_nr = 0
          /\ do_output = "unbound"
          /\ target_open
          /\ target = << >>
    /\ (argc >= 4 /\ Len(src) > 0 /\ ~startswith(src[1], header_prefix)) =>
          /\ spc \in {"start", "loop", "error"}
          /\ line_nr = 0
          /\ target = << >>
    /\ (Len(src) = 0 \/ startswith(src[1], header_prefix)) => spc # "error"
    /\ do_output = "unbound" <=> line_nr = 0

C9_Witness ==
    /\ spc = "error"
    /\ target_open
    /\ target = << >>
    /\ Len(src) = 3
    /\ src[1] = << "a" >>
    /\ src[2] = header_prefix \o version

(***************************************************************************)
(* C8: the key lister prints one entry per distinct first word of the      *)
(* lines that hold a word, each with the length of the word, in ascending  *)
(* order of the word.                                                      *)
(***************************************************************************)
HasWord(line) == \E k \in 1 .. Len(line) : IsWordChar(line[k])

\* the leftmost maximal run of word characters of a line that has one
FirstWord(line) ==
    LET first == Least({k \in 1 .. Len(line) : IsWordChar(line[k])})
        last  == CHOOSE j \in first .. Len(line) :
                    /\ \A k \in first .. j : IsWordChar(line[k])
                    /\ (j = Len(line) \/ ~IsWordChar(line[j + 1]))
    IN  SubSeq(line, first, last)

FirstWords ==
    {FirstWord(klines[k]) : k \in {j \in 1 .. Len(klines) : HasWord(klines[j])}}

\* a is before b in the order of str
Before(a, b) ==
    \E k \in 1 .. Len(b) :
        /\ k <= Len(a) + 1
        /\ \A j \in 1 .. k - 1 : a[j] = b[j]
        /\ (k = Len(a) + 1 \/ Code(a[k]) < Code(b[k]))

C8_DistinctFirstWordsSorted ==
    kpc = "done" =>
        /\ {printed[i].name : i \in 1 .. Len(printed)} = FirstWords
        /\ Len(printed) = Cardinality(FirstWords)
        /\ \A i \in 1 .. Len(printed) : printed[i].length = Len(printed[i].name)
        /\ \A i \in 1 .. Len(printed) - 1 :
              Before(printed[i].name, printed[i + 1].name)

C8_Witness ==
    /\ kpc = "done"
    /\ klines = << << "\"", "b", "\"", ":", " ", "{" >>,
                   << "{" >>,
                   << "b", " ", "a" >> >>
    /\ Len(printed) = 1
    /\ printed[1].name = << "b" >>
    /\ printed[1].length = 1

====
